---- MODULE Spec2Model ----
(***************************************************************************)
(* Turn state machine and audio streaming protocol of the VoiceBot         *)
(* component (src/components/voice-bot.tsx).                               *)
(*                                                                         *)
(* The component is single threaded and event driven.  Every action below  *)
(* is one event handler run to completion, or the part of an async         *)
(* function between two awaits.  React state (isRecording, isProcessing,   *)
(* isBotSpeaking, messages, latency, botStatus) is taken as committed at   *)
(* the end of the handler that sets it; refs are plain mutable cells.      *)
(* Byte buffers are sequences of integers.                                 *)
(***************************************************************************)
EXTENDS Integers, Sequences, FiniteSets, TLC

VARIABLES
    botStatus,      \* useState botStatus
    isRecording,    \* useState isRecording
    isProcessing,   \* useState isProcessing
    isBotSpeaking,  \* useState isBotSpeaking
    messages,       \* useState messages
    latency,        \* useState latency
    wsState,        \* wsRef.current: "none" (null) or the socket's readyState
    initPc,         \* position of initializeSession: "fetching" or "done"
    audioChunks,    \* audioChunksRef.current
    mp3Buffer,      \* mp3BufferRef.current
    isPlaying,      \* isPlayingRef.current
    timers,         \* number of pending setTimeout(playCollectedAudio, 800)
    decoding,       \* playCollectedAudio calls suspended at an await in the try block
    playing,        \* buffer sources started and not yet ended
    micPending,     \* startRecording calls suspended at await getUserMedia
    openCaptures,   \* script processors connected to a live capture stream
    sent,           \* binary messages handed to wsRef.current.send, in order
    mounted,        \* the component is mounted (the effect's cleanup has not run)
    playbackCtx,    \* audioPlaybackRef.current: which context (id 0: null) and its state
    arrived,        \* payloads of the valid fragments received since the last timer fired
    ev,             \* name of the last event handled
    evPre           \* what was observable when that event began (see Handled, Gesture)

vars == <<botStatus, isRecording, isProcessing, isBotSpeaking, messages, latency,
          wsState, initPc, audioChunks, mp3Buffer, isPlaying, timers, decoding,
          playing, micPending, openCaptures, sent, mounted, playbackCtx, arrived, ev, evPre>>

(***************************************************************************)
(* Bounds of the model.                                                    *)
(***************************************************************************)
MaxMsgs == 2        \* control messages received in a session
MaxFrags == 2       \* fragments held in mp3Buffer
MaxBlocks == 2      \* blocks held in audioChunks
MaxUtter == 1       \* utterances sent in a session
MaxPending == 1     \* getUserMedia calls in flight
MaxCaptures == 2    \* capture streams requested and not yet stopped

(***************************************************************************)
(* Program constants.                                                      *)
(***************************************************************************)
MarkerLen == 12
MinPlayable == 100
Undefined == -1     \* an absent optional field / an unset metric

\* 'AUDIO_CHUNK:' in ASCII
Marker == <<65, 85, 68, 73, 79, 95, 67, 72, 85, 78, 75, 58>>
\* new TextEncoder().encode('END_AUDIO')
EndAudio == <<69, 78, 68, 95, 65, 85, 68, 73, 79>>

Statuses == {"connecting", "ready", "speaking", "listening", "processing", "done"}

(***************************************************************************)
(* Inputs.                                                                 *)
(***************************************************************************)
Fill(n, b) == [i \in 1..n |-> b]

\* The PCM block onaudioprocess delivers when n blocks are buffered.  The code
\* copies blocks without reading them, so a block is identified by its content:
\* blocks differ from one another and alternate between two lengths (a block
\* is never empty: the processor's block size is fixed).
BlockAt(n) == IF n % 2 = 0 THEN <<10 + n>> ELSE <<10 + n, 20 + n>>

\* inbound binary socket messages
BinaryIn ==
    { Marker \o Fill(40, 7),            \* valid fragment, 40 bytes
      Marker \o Fill(60, 8),            \* valid fragment, 60 bytes
      <<65, 85, 68, 73, 79, 95, 67, 72, 85, 78, 75, 59>> \o Fill(100, 9),  \* last marker byte wrong
      <<65, 85, 68, 73, 79>> }          \* shorter than the marker

\* inbound control messages (the fields handleMessage reads)
Msg(t, a, tts, asr) == [type |-> t, has_audio |-> a, tts_latency_ms |-> tts, asr_latency_ms |-> asr]

TextIn ==
    { Msg("transcription", FALSE, Undefined, 120),
      Msg("response", TRUE, 250, Undefined),
      Msg("question", FALSE, 0, Undefined),        \* text only: no speech was synthesised
      Msg("result", FALSE, Undefined, Undefined) }

(***************************************************************************)
(* Pure helpers.                                                           *)
(***************************************************************************)
Min(a, b) == IF a < b THEN a ELSE b

\* arr.slice(from) / arr.slice(0, n) on a byte array (0-based, end exclusive)
Slice(arr, from, to) == SubSeq(arr, from + 1, Min(to, Len(arr)))

\* chunks.reduce((acc, c) => acc + c.length, 0)
RECURSIVE TotalLength(_)
TotalLength(chunks) ==
    IF chunks = <<>> THEN 0
    ELSE Len(Head(chunks)) + TotalLength(Tail(chunks))

\* typedArray.set(chunk, offset)
SetAt(arr, chunk, offset) ==
    [i \in 1..Len(arr) |->
        IF i > offset /\ i <= offset + Len(chunk) THEN chunk[i - offset] ELSE arr[i]]

\* the copy loop without offset += chunk.length
RECURSIVE CopyChunksSameOffset(_, _, _)
CopyChunksSameOffset(arr, chunks, offset) ==
    IF chunks = <<>> THEN arr
    ELSE CopyChunksSameOffset(SetAt(arr, Head(chunks), offset), Tail(chunks), offset)

\* let offset = 0; for (const chunk of chunks) { arr.set(chunk, offset); offset += chunk.length; }
RECURSIVE CopyChunks(_, _, _)
CopyChunks(arr, chunks, offset) ==
    IF chunks = <<>> THEN arr
    ELSE CopyChunks(SetAt(arr, Head(chunks), offset), Tail(chunks), offset + Len(Head(chunks)))

\* new Uint8Array(totalLen) filled by the copy loop
Combine(chunks) == CopyChunks(Fill(TotalLength(chunks), 0), chunks, 0)

\* JavaScript truthiness of an optional number
Truthy(n) == n # Undefined /\ n # 0

\* const canRecord = ...
canRecord ==
    ~isProcessing /\ ~isBotSpeaking /\ botStatus # "connecting" /\ botStatus # "done"

\* audioPlaybackRef.current === null
NoContext == [id |-> 0, state |-> "none"]

\* the record kept about the last event, with nothing noted in it
Blank ==
    [botStatus |-> "-", isRecording |-> FALSE, isProcessing |-> FALSE,
     isBotSpeaking |-> FALSE, audioChunks |-> <<>>, sent |-> <<>>,
     messages |-> <<>>, mp3Buffer |-> <<>>, arrived |-> <<>>,
     latency |-> [tts_latency_ms |-> Undefined, asr_latency_ms |-> Undefined],
     timers |-> 0, inFlight |-> 0, after |-> "-", input |-> <<>>, handedOff |-> <<>>,
     msg |-> Msg("-", FALSE, Undefined, Undefined), ctx |-> NoContext]

\* bookkeeping of an event other than a button gesture: its name and the status before it
Handled(name) ==
    /\ ev' = name
    /\ evPre' = [Blank EXCEPT !.botStatus = botStatus]

\* bookkeeping of a button gesture: its name, the event it follows and
\* everything observable before it
Gesture(name) ==
    /\ ev' = name
    /\ evPre' = [Blank EXCEPT !.botStatus = botStatus, !.isRecording = isRecording,
                              !.isProcessing = isProcessing, !.isBotSpeaking = isBotSpeaking,
                              !.audioChunks = audioChunks, !.sent = sent, !.after = ev]

\* bookkeeping of a capture callback: its name and everything a recording
\* can be observed to change, as it was before the callback
Capture(name) ==
    /\ ev' = name
    /\ evPre' = [Blank EXCEPT !.botStatus = botStatus, !.isRecording = isRecording,
                              !.isProcessing = isProcessing, !.isBotSpeaking = isBotSpeaking,
                              !.audioChunks = audioChunks, !.sent = sent]

\* bookkeeping of an inbound socket message: its name, its content (the bytes
\* of a binary message, the parsed value of a textual one) and the state of
\* the downlink before it
Inbound(name, data, msg) ==
    /\ ev' = name
    /\ evPre' = [Blank EXCEPT !.botStatus = botStatus, !.isRecording = isRecording,
                              !.isProcessing = isProcessing, !.isBotSpeaking = isBotSpeaking,
                              !.messages = messages, !.latency = latency,
                              !.mp3Buffer = mp3Buffer, !.arrived = arrived,
                              !.timers = timers, !.inFlight = decoding + playing,
                              !.input = data, !.msg = msg]

\* whether an inbound binary message is a fragment, and the fragment's bytes
IsFragment(arr) == Len(arr) >= MarkerLen /\ \A i \in 1..MarkerLen : arr[i] = Marker[i]
PayloadOf(arr) == [i \in 1..(Len(arr) - MarkerLen) |-> arr[i + MarkerLen]]

\* bookkeeping of a step of playCollectedAudio: its name, the buffer it hands
\* to decodeAudioData (empty when it hands none) and the state of the
\* reassembly and of the playbacks before it
Playback(name, combined) ==
    /\ ev' = name
    /\ evPre' = [Blank EXCEPT !.botStatus = botStatus, !.isBotSpeaking = isBotSpeaking,
                              !.mp3Buffer = mp3Buffer, !.arrived = arrived,
                              !.timers = timers, !.inFlight = decoding + playing,
                              !.handedOff = combined, !.ctx = playbackCtx]

\* the state of a new AudioContext: running when the page has been activated
\* by the user, suspended otherwise (autoplay policy)
FreshStates == {"suspended", "running"}

\* !audioPlaybackRef.current || audioPlaybackRef.current.state === 'closed'
NeedsContext == playbackCtx.id = 0 \/ playbackCtx.state = "closed"

\* audioPlaybackRef.current after getAudioContext(), fresh the state of a new context
getAudioContext(fresh) ==
    IF NeedsContext THEN [id |-> playbackCtx.id + 1, state |-> fresh] ELSE playbackCtx

(***************************************************************************)
(* Initial state: the component has mounted and initializeSession has      *)
(* issued the bootstrap request.                                           *)
(***************************************************************************)
Init ==
    /\ botStatus = "connecting"
    /\ isRecording = FALSE
    /\ isProcessing = FALSE
    /\ isBotSpeaking = FALSE
    /\ messages = <<>>
    /\ latency = [asr_latency_ms |-> Undefined, tts_latency_ms |-> Undefined]
    /\ wsState = "none"
    /\ initPc = "fetching"
    /\ audioChunks = <<>>
    /\ mp3Buffer = <<>>
    /\ isPlaying = FALSE
    /\ timers = 0
    /\ decoding = 0
    /\ playing = 0
    /\ micPending = 0
    /\ openCaptures = 0
    /\ sent = <<>>
    /\ mounted = TRUE
    /\ playbackCtx = NoContext
    /\ arrived = <<>>
    /\ ev = "mount"
    /\ evPre = [Blank EXCEPT !.botStatus = "connecting"]

(***************************************************************************)
(* initializeSession and the socket's lifecycle.                           *)
(***************************************************************************)
\* fetch or response.json() rejects, or new WebSocket(ws_url) throws: the catch block
initializeSessionFailed ==
    /\ initPc = "fetching"
    /\ initPc' = "done"
    /\ botStatus' = "ready"
    /\ Handled("initFailed")
    /\ UNCHANGED <<mounted, playbackCtx>>
    /\ UNCHANGED <<isRecording, isProcessing, isBotSpeaking, messages, latency, wsState,
                   audioChunks, mp3Buffer, arrived, isPlaying, timers, decoding, playing,
                   micPending, openCaptures, sent>>

\* the bootstrap response arrives: connectWebSocket(ws_url) creates the socket
connectWebSocket ==
    /\ initPc = "fetching"
    /\ initPc' = "done"
    /\ wsState' = "connecting"
    /\ Handled("connectWebSocket")
    /\ UNCHANGED <<mounted, playbackCtx>>
    /\ UNCHANGED <<botStatus, isRecording, isProcessing, isBotSpeaking, messages, latency,
                   audioChunks, mp3Buffer, arrived, isPlaying, timers, decoding, playing,
                   micPending, openCaptures, sent>>

\* ws.onopen: logs only
onopen ==
    /\ wsState = "connecting"
    /\ wsState' = "open"
    /\ Handled("onopen")
    /\ UNCHANGED <<mounted, playbackCtx>>
    /\ UNCHANGED <<botStatus, isRecording, isProcessing, isBotSpeaking, messages, latency,
                   initPc, audioChunks, mp3Buffer, arrived, isPlaying, timers, decoding, playing,
                   micPending, openCaptures, sent>>

\* the cleanup of the mount effect: wsRef.current?.close()
unmount ==
    /\ mounted
    /\ mounted' = FALSE
    /\ wsState' = IF wsState \in {"connecting", "open"} THEN "closing" ELSE wsState
    /\ Handled("unmount")
    /\ UNCHANGED <<botStatus, isRecording, isProcessing, isBotSpeaking, messages, latency,
                   initPc, audioChunks, mp3Buffer, arrived, isPlaying, timers, decoding, playing,
                   micPending, openCaptures, sent, playbackCtx>>

\* ws.onclose (a failed connect closes the socket as well)
onclose ==
    /\ wsState \in {"connecting", "open", "closing"}
    /\ wsState' = "closed"
    /\ botStatus' = "done"
    /\ Handled("onclose")
    /\ UNCHANGED <<mounted, playbackCtx>>
    /\ UNCHANGED <<isRecording, isProcessing, isBotSpeaking, messages, latency,
                   initPc, audioChunks, mp3Buffer, arrived, isPlaying, timers, decoding, playing,
                   micPending, openCaptures, sent>>

(***************************************************************************)
(* ws.onmessage: the downlink demultiplexer.                               *)
(***************************************************************************)
\* a marker test that compares only the bytes the message has
HasMarkerStartsWith(arr) ==
    Slice(arr, 0, MarkerLen) = SubSeq(Marker, 1, Min(MarkerLen, Len(arr)))

\* prefix === 'AUDIO_CHUNK:' for prefix = decode(arr.slice(0, 12))
HasMarker(arr) == Slice(arr, 0, MarkerLen) = Marker

\* event.data instanceof ArrayBuffer
onmessageBinary ==
    /\ wsState = "open"
    /\ \E arr \in BinaryIn :
          /\ HasMarker(arr) => Len(mp3Buffer) < MaxFrags
          /\ mp3Buffer' = IF HasMarker(arr)
                          THEN Append(mp3Buffer, Slice(arr, MarkerLen, Len(arr)))
                          ELSE mp3Buffer
          /\ arrived' = IF IsFragment(arr) THEN Append(arrived, PayloadOf(arr)) ELSE arrived
          /\ Inbound("binary", arr, Blank.msg)
    /\ UNCHANGED <<mounted, playbackCtx>>
    /\ UNCHANGED <<botStatus, isRecording, isProcessing, isBotSpeaking, messages, latency,
                   wsState, initPc, audioChunks, isPlaying, timers, decoding, playing,
                   micPending, openCaptures, sent>>

\* handleMessage without the branch on msg.type === 'result'
StatusAfterMessageNoResult(msg) == botStatus

\* botStatus after handleMessage(msg)
StatusAfterMessage(msg) == IF msg.type = "result" THEN "done" ELSE botStatus

\* a message list that puts the newest message first
MessagesAfterPrepended(msg) == <<msg>> \o messages

\* setMessages((prev) => [...prev, msg])
MessagesAfter(msg) == Append(messages, msg)

\* a handler that schedules a release for every message
SchedulesReleaseAlways(msg) == TRUE

\* if (msg.has_audio)
SchedulesRelease(msg) == msg.has_audio

\* handleMessage(msg)
handleMessage(msg) ==
    /\ messages' = MessagesAfter(msg)
    /\ latency' = [tts_latency_ms |-> IF Truthy(msg.tts_latency_ms)
                                      THEN msg.tts_latency_ms ELSE latency.tts_latency_ms,
                   asr_latency_ms |-> IF Truthy(msg.asr_latency_ms)
                                      THEN msg.asr_latency_ms ELSE latency.asr_latency_ms]
    /\ botStatus' = StatusAfterMessage(msg)
    /\ IF SchedulesRelease(msg)
       THEN isProcessing' = TRUE /\ timers' = timers + 1
       ELSE UNCHANGED <<isProcessing, timers>>

\* a text handler that also starts a fresh fragment buffer
onmessageTextResetsBuffer ==
    /\ wsState = "open"
    /\ Len(messages) < MaxMsgs
    /\ \E msg \in TextIn : handleMessage(msg) /\ Inbound("text", <<>>, msg)
    /\ mp3Buffer' = <<>>
    /\ UNCHANGED <<mounted, playbackCtx>>
    /\ UNCHANGED <<isRecording, isBotSpeaking, wsState, initPc, audioChunks, arrived,
                   isPlaying, decoding, playing, micPending, openCaptures, sent>>

\* a textual message that JSON.parse accepts
onmessageText ==
    /\ wsState = "open"
    /\ Len(messages) < MaxMsgs
    /\ \E msg \in TextIn : handleMessage(msg) /\ Inbound("text", <<>>, msg)
    /\ UNCHANGED <<mounted, playbackCtx>>
    /\ UNCHANGED <<isRecording, isBotSpeaking, wsState, initPc, audioChunks, mp3Buffer, arrived,
                   isPlaying, decoding, playing, micPending, openCaptures, sent>>

\* a catch block that gives the session up on a message it cannot parse
onmessageUnparsableCloses ==
    /\ wsState = "open"
    /\ Inbound("unparsable", <<>>, Blank.msg)
    /\ wsState' = "closed"
    /\ botStatus' = "done"
    /\ UNCHANGED <<mounted, playbackCtx>>
    /\ UNCHANGED <<isRecording, isProcessing, isBotSpeaking, messages, latency,
                   initPc, audioChunks, mp3Buffer, arrived, isPlaying, timers, decoding,
                   playing, micPending, openCaptures, sent>>

\* a textual message that JSON.parse rejects: caught and logged
onmessageUnparsable ==
    /\ wsState = "open"
    /\ Inbound("unparsable", <<>>, Blank.msg)
    /\ UNCHANGED <<mounted, playbackCtx>>
    /\ UNCHANGED <<botStatus, isRecording, isProcessing, isBotSpeaking, messages, latency,
                   wsState, initPc, audioChunks, mp3Buffer, arrived, isPlaying, timers, decoding,
                   playing, micPending, openCaptures, sent>>

(***************************************************************************)
(* playCollectedAudio: reassembly and playback.                            *)
(***************************************************************************)
\* playCollectedAudio without the minimum length test
TooSmallNever(totalLength) == FALSE

\* totalLength < 100
TooSmall(totalLength) == totalLength < MinPlayable

\* playCollectedAudio without mp3BufferRef.current = []
BufferAfterReleaseKept == mp3Buffer

\* mp3BufferRef.current = []
BufferAfterRelease == <<>>

\* the 800 ms timer fires: playCollectedAudio up to its first await
playCollectedAudio ==
    /\ timers > 0
    /\ timers' = timers - 1
    /\ arrived' = <<>>
    /\ IF Len(mp3Buffer) = 0
       THEN /\ UNCHANGED <<mp3Buffer, isBotSpeaking, isPlaying, botStatus, decoding, playbackCtx>>
            /\ Playback("timer", <<>>)
       ELSE /\ mp3Buffer' = BufferAfterRelease
            /\ IF TooSmall(TotalLength(mp3Buffer))
               THEN /\ UNCHANGED <<isBotSpeaking, isPlaying, botStatus, decoding, playbackCtx>>
                    /\ Playback("timer", <<>>)
               ELSE /\ isBotSpeaking' = TRUE
                    /\ isPlaying' = TRUE
                    /\ botStatus' = "speaking"
                    /\ decoding' = decoding + 1
                    /\ \E fresh \in FreshStates : playbackCtx' = getAudioContext(fresh)
                    /\ Playback("timer", Combine(mp3Buffer))
    /\ UNCHANGED mounted
    /\ UNCHANGED <<isRecording, isProcessing, messages, latency, wsState, initPc,
                   audioChunks, playing, micPending, openCaptures, sent>>

\* playCollectedAudio without the resume of a suspended context
StateAfterResumeSkipped == playbackCtx.state

\* ctx.state once if (ctx.state === 'suspended') await ctx.resume() is over
StateAfterResume == "running"

\* a source start that already reports the playback as over
sourceStartNotifies ==
    /\ decoding > 0
    /\ decoding' = decoding - 1
    /\ playing' = playing + 1
    /\ Playback("decoded", <<>>)
    /\ isPlaying' = FALSE
    /\ isBotSpeaking' = FALSE
    /\ isProcessing' = FALSE
    /\ botStatus' = "ready"
    /\ playbackCtx' = [playbackCtx EXCEPT !.state = StateAfterResume]
    /\ UNCHANGED mounted
    /\ UNCHANGED <<isRecording, messages, latency,
                   wsState, initPc, audioChunks, mp3Buffer, arrived, timers,
                   micPending, openCaptures, sent>>

\* resume and decodeAudioData resolve: the source is created and started
sourceStart ==
    /\ decoding > 0
    /\ decoding' = decoding - 1
    /\ playing' = playing + 1
    /\ Playback("decoded", <<>>)
    /\ playbackCtx' = [playbackCtx EXCEPT !.state = StateAfterResume]
    /\ UNCHANGED mounted
    /\ UNCHANGED <<botStatus, isRecording, isProcessing, isBotSpeaking, messages, latency,
                   wsState, initPc, audioChunks, mp3Buffer, arrived, isPlaying, timers,
                   micPending, openCaptures, sent>>

\* a catch block that clears the flags and forgets setBotStatus('ready')
catchWritesKeepStatus ==
    /\ isPlaying' = FALSE
    /\ isBotSpeaking' = FALSE
    /\ isProcessing' = FALSE
    /\ UNCHANGED botStatus

\* the writes of the catch block
catchWrites ==
    /\ isPlaying' = FALSE
    /\ isBotSpeaking' = FALSE
    /\ isProcessing' = FALSE
    /\ botStatus' = "ready"

\* an onended handler that clears the flags and forgets setBotStatus('ready')
onendedWritesKeepStatus ==
    /\ isPlaying' = FALSE
    /\ isBotSpeaking' = FALSE
    /\ isProcessing' = FALSE
    /\ UNCHANGED botStatus

\* the writes of source.onended
onendedWrites ==
    /\ isPlaying' = FALSE
    /\ isBotSpeaking' = FALSE
    /\ isProcessing' = FALSE
    /\ botStatus' = "ready"

\* resume or decodeAudioData rejects: the catch block
decodeError ==
    /\ decoding > 0
    /\ decoding' = decoding - 1
    /\ catchWrites
    /\ Playback("decodeError", <<>>)
    /\ UNCHANGED <<mounted, playbackCtx>>
    /\ UNCHANGED <<isRecording, messages, latency, wsState, initPc, audioChunks, mp3Buffer, arrived,
                   timers, playing, micPending, openCaptures, sent>>

\* source.onended
onended ==
    /\ playing > 0
    /\ playing' = playing - 1
    /\ onendedWrites
    /\ Playback("onended", <<>>)
    /\ UNCHANGED <<mounted, playbackCtx>>
    /\ UNCHANGED <<isRecording, messages, latency, wsState, initPc, audioChunks, mp3Buffer, arrived,
                   timers, decoding, micPending, openCaptures, sent>>

(***************************************************************************)
(* startRecording / stopRecording: capture and uplink.                     *)
(***************************************************************************)
\* the early return of startRecording
StartRefused == isProcessing \/ isBotSpeaking \/ botStatus = "done"

\* a press of the record button: nothing when the button is disabled or the
\* early return is taken, else startRecording up to await getUserMedia
startRecording ==
    /\ mounted
    /\ Gesture("start")
    /\ IF canRecord /\ ~StartRefused
       THEN /\ micPending < MaxPending
            /\ micPending + openCaptures < MaxCaptures
            /\ micPending' = micPending + 1
            /\ \E fresh \in FreshStates : playbackCtx' = getAudioContext(fresh)
       ELSE UNCHANGED <<micPending, playbackCtx>>
    /\ UNCHANGED mounted
    /\ UNCHANGED <<botStatus, isRecording, isProcessing, isBotSpeaking, messages, latency,
                   wsState, initPc, audioChunks, mp3Buffer, arrived, isPlaying, timers, decoding,
                   playing, openCaptures, sent>>

\* a try block without audioChunksRef.current = []
ChunksAfterGrantKept == audioChunks

\* audioChunksRef.current = []
ChunksAfterGrant == <<>>

\* getUserMedia resolves: the rest of the try block
micGranted ==
    /\ micPending > 0
    /\ micPending' = micPending - 1
    /\ openCaptures' = openCaptures + 1
    /\ audioChunks' = ChunksAfterGrant
    /\ isRecording' = TRUE
    /\ botStatus' = "listening"
    /\ Handled("micGranted")
    /\ UNCHANGED <<mounted, playbackCtx>>
    /\ UNCHANGED <<isProcessing, isBotSpeaking, messages, latency, wsState, initPc,
                   mp3Buffer, arrived, isPlaying, timers, decoding, playing, sent>>

\* a catch block that puts the status back to ready
micErrorSetsReady ==
    /\ micPending > 0
    /\ micPending' = micPending - 1
    /\ Capture("micError")
    /\ UNCHANGED <<mounted, playbackCtx>>
    /\ botStatus' = "ready"
    /\ UNCHANGED <<isRecording, isProcessing, isBotSpeaking, messages, latency,
                   wsState, initPc, audioChunks, mp3Buffer, arrived, isPlaying, timers, decoding,
                   playing, openCaptures, sent>>

\* getUserMedia rejects: the catch block logs
micError ==
    /\ micPending > 0
    /\ micPending' = micPending - 1
    /\ Capture("micError")
    /\ UNCHANGED <<mounted, playbackCtx>>
    /\ UNCHANGED <<botStatus, isRecording, isProcessing, isBotSpeaking, messages, latency,
                   wsState, initPc, audioChunks, mp3Buffer, arrived, isPlaying, timers, decoding,
                   playing, openCaptures, sent>>

\* processor.onaudioprocess of any connected processor
onaudioprocess ==
    /\ openCaptures > 0
    /\ Len(audioChunks) < MaxBlocks
    /\ audioChunks' = Append(audioChunks, BlockAt(Len(audioChunks)))
    /\ Handled("onaudioprocess")
    /\ UNCHANGED <<mounted, playbackCtx>>
    /\ UNCHANGED <<botStatus, isRecording, isProcessing, isBotSpeaking, messages, latency,
                   wsState, initPc, mp3Buffer, arrived, isPlaying, timers, decoding, playing,
                   micPending, openCaptures, sent>>

\* stopRecording without setIsRecording(false)
RecordingAfterStopKept == isRecording

\* setIsRecording(false)
RecordingAfterStop == FALSE

\* stopRecording without its early return
StopNeverIgnored == FALSE

\* the early return of stopRecording
StopIgnored == ~isRecording

\* stopRecording without the zero-length branch
EmptyCaptureNever(chunks) == FALSE

\* totalLen === 0
EmptyCapture(chunks) == TotalLength(chunks) = 0

\* the sentinel sent before the PCM buffer
UplinkSentinelFirst(pcmData) == <<EndAudio, pcmData>>

\* the messages sent for one utterance
Uplink(pcmData) == <<pcmData, EndAudio>>

\* a release of the record button: stopRecording
stopRecording ==
    /\ mounted
    /\ Gesture("stop")
    /\ IF StopIgnored
       THEN UNCHANGED <<botStatus, isRecording, isProcessing, audioChunks, openCaptures, sent>>
       ELSE /\ openCaptures' = openCaptures - 1
            /\ isRecording' = RecordingAfterStop
            /\ IF EmptyCapture(audioChunks)
               THEN /\ isProcessing' = FALSE
                    /\ botStatus' = "ready"
                    /\ UNCHANGED <<audioChunks, sent>>
               ELSE /\ wsState = "open" => Len(sent) < 2 * MaxUtter
                    /\ isProcessing' = TRUE
                    /\ botStatus' = "processing"
                    /\ audioChunks' = <<>>
                    /\ sent' = IF wsState = "open"
                               THEN sent \o Uplink(Combine(audioChunks))
                               ELSE sent
    /\ UNCHANGED <<mounted, playbackCtx>>
    /\ UNCHANGED <<isBotSpeaking, messages, latency, wsState, initPc, mp3Buffer, arrived,
                   isPlaying, timers, decoding, playing, micPending>>

(***************************************************************************)
(* Specification.                                                          *)
(***************************************************************************)
Next ==
    \/ initializeSessionFailed
    \/ unmount
    \/ connectWebSocket
    \/ onopen
    \/ onclose
    \/ onmessageBinary
    \/ onmessageText
    \/ onmessageUnparsable
    \/ playCollectedAudio
    \/ sourceStart
    \/ decodeError
    \/ onended
    \/ startRecording
    \/ micGranted
    \/ micError
    \/ onaudioprocess
    \/ stopRecording

Spec == Init /\ [][Next]_vars

\* the promises of resume and decodeAudioData settle, and a started source
\* reaches its end: the browser runs these callbacks once they are due
SpecLive ==
    /\ Spec
    /\ WF_vars(sourceStart \/ decodeError)
    /\ WF_vars(onended)

\* in addition, every timer that handleMessage has set fires
SpecFair ==
    /\ SpecLive
    /\ WF_vars(playCollectedAudio)

TypeOK ==
    /\ botStatus \in Statuses
    /\ isRecording \in BOOLEAN /\ isProcessing \in BOOLEAN /\ isBotSpeaking \in BOOLEAN
    /\ isPlaying \in BOOLEAN
    /\ wsState \in {"none", "connecting", "open", "closing", "closed"}
    /\ mounted \in BOOLEAN
    /\ playbackCtx.id \in 0..1 /\ playbackCtx.state \in {"none", "suspended", "running"}
    /\ timers \in 0..MaxMsgs /\ decoding \in 0..MaxMsgs /\ playing \in 0..MaxMsgs
    /\ micPending \in 0..MaxPending /\ openCaptures \in 0..MaxCaptures
    /\ Len(messages) <= MaxMsgs /\ Len(mp3Buffer) <= MaxFrags
    /\ Len(audioChunks) <= MaxBlocks /\ Len(sent) <= 2 * MaxUtter

(***************************************************************************)
(* Properties.                                                             *)
(***************************************************************************)
Last(seq) == seq[Len(seq)]

\* the concatenation of a sequence of byte blocks
RECURSIVE Flatten(_)
Flatten(chunks) ==
    IF chunks = <<>> THEN <<>> ELSE Head(chunks) \o Flatten(Tail(chunks))

\* what a button gesture can be observed to change
Observable == <<botStatus, isRecording, isProcessing, isBotSpeaking, audioChunks, sent>>

\* C1: a start request made while the status is not ready changes nothing: the
\* status, the three flags, the capture buffer and the messages sent stay as
\* they are and no capture stream is requested or opened.
StartOutsideReadyHasNoEffect ==
    [][(ev' = "start" /\ botStatus # "ready")
          => UNCHANGED <<Observable, micPending, openCaptures>>]_vars

\* C2: once the status is done it is done in every later state.
DoneIsTerminal == [][botStatus = "done" => botStatus' = "done"]_vars

\* C3: the client is never recording while the bot is speaking or while a turn
\* is being processed.
RecordingExcludesProcessingAndSpeaking ==
    ~(isRecording /\ (isProcessing \/ isBotSpeaking))

\* the transitions of the turn state machine
Edges ==
    { <<"connecting", "ready">>, <<"ready", "listening">>, <<"listening", "processing">>,
      <<"listening", "ready">>, <<"processing", "speaking">>, <<"processing", "ready">>,
      <<"speaking", "ready">> }
    \cup { <<st, "done">> : st \in Statuses }

\* C4: every change of the status follows one of the specified edges.
StatusFollowsEdges ==
    [][botStatus' # botStatus => <<botStatus, botStatus'>> \in Edges]_vars

\* C5: right after a result message or a socket close has been handled, the
\* status is done, whatever it was before.
ResultOrCloseSetsDone ==
    /\ ev = "onclose" => botStatus = "done"
    /\ (ev = "text" /\ Last(messages).type = "result") => botStatus = "done"

ResultWhileSpeakingSetsDone ==
    /\ ev = "text" /\ Last(messages).type = "result"
    /\ evPre.botStatus = "speaking"
    /\ botStatus = "done"

\* C6: right after a decode failure the status is ready and isProcessing,
\* isBotSpeaking and the playing marker are cleared.
DecodeFailureReturnsToReady ==
    ev = "decodeError" =>
        /\ botStatus = "ready"
        /\ ~isProcessing /\ ~isBotSpeaking /\ ~isPlaying

DecodeFailedWhileSpeaking ==
    /\ ev = "decodeError"
    /\ evPre.botStatus = "speaking"
    /\ botStatus = "ready"

\* C7: a stop while listening with nothing captured sends no message and
\* leaves the status ready with isProcessing false.
EmptyStopSendsNothing ==
    (ev = "stop" /\ evPre.botStatus = "listening" /\ TotalLength(evPre.audioChunks) = 0) =>
        /\ sent = evPre.sent
        /\ botStatus = "ready"
        /\ ~isProcessing

EmptyStopOnOpenSocket ==
    /\ ev = "stop" /\ evPre.botStatus = "listening" /\ evPre.isRecording
    /\ evPre.audioChunks = <<>>
    /\ wsState = "open"
    /\ botStatus = "ready"

\* C8: a stop while listening with captured bytes appends, on an open socket,
\* exactly the PCM buffer and then the END_AUDIO sentinel to the messages sent,
\* and nothing otherwise; no sentinel is ever sent without the PCM message
\* right before it.
StopSendsPcmThenSentinel ==
    /\ (ev = "stop" /\ evPre.botStatus = "listening" /\ TotalLength(evPre.audioChunks) > 0) =>
          IF wsState = "open"
          THEN /\ Len(sent) = Len(evPre.sent) + 2
               /\ SubSeq(sent, 1, Len(evPre.sent)) = evPre.sent
               /\ Len(sent[Len(sent) - 1]) = TotalLength(evPre.audioChunks)
               /\ sent[Len(sent) - 1] # EndAudio
               /\ Last(sent) = EndAudio
          ELSE sent = evPre.sent
    /\ \A i \in 1..Len(sent) :
          sent[i] = EndAudio => (i > 1 /\ sent[i - 1] # EndAudio)

StopSentAnUtterance ==
    /\ ev = "stop" /\ evPre.botStatus = "listening"
    /\ TotalLength(evPre.audioChunks) > 0
    /\ wsState = "open"
    /\ Len(sent) = 2

\* C9: the PCM buffer sent on stop is the concatenation of the captured blocks
\* in capture order, and its length is the sum of their lengths.
AssembledIsConcatenation ==
    (ev = "stop" /\ evPre.isRecording /\ TotalLength(evPre.audioChunks) > 0
        /\ wsState = "open") =>
        /\ sent[Len(sent) - 1] = Flatten(evPre.audioChunks)
        /\ Len(sent[Len(sent) - 1]) = TotalLength(evPre.audioChunks)

TwoBlocksAssembled ==
    /\ ev = "stop" /\ evPre.isRecording
    /\ evPre.audioChunks = <<BlockAt(0), BlockAt(1)>>
    /\ wsState = "open"
    /\ sent[Len(sent) - 1] = <<10, 11, 21>>

\* C10: a stop request made while not recording changes nothing.
StopWhenNotRecordingHasNoEffect ==
    (ev = "stop" /\ ~evPre.isRecording) =>
        /\ botStatus = evPre.botStatus
        /\ isRecording = evPre.isRecording
        /\ isProcessing = evPre.isProcessing
        /\ isBotSpeaking = evPre.isBotSpeaking
        /\ audioChunks = evPre.audioChunks
        /\ sent = evPre.sent

StopIgnoredWithBytesBuffered ==
    /\ ev = "stop" /\ ~evPre.isRecording
    /\ evPre.botStatus = "processing"
    /\ audioChunks # <<>>
    /\ wsState = "open"

UnmarkedBinaryIsDropped ==
    (ev = "binary" /\ ~IsFragment(evPre.input)) =>
        /\ mp3Buffer = evPre.mp3Buffer
        /\ botStatus = evPre.botStatus
        /\ isRecording = evPre.isRecording
        /\ isProcessing = evPre.isProcessing
        /\ isBotSpeaking = evPre.isBotSpeaking
        /\ messages = evPre.messages
        /\ timers = evPre.timers
        /\ wsState = "open"

ShortBinaryDroppedWithFragmentsBuffered ==
    /\ ev = "binary"
    /\ Len(evPre.input) < MarkerLen
    /\ evPre.mp3Buffer # <<>>
    /\ mp3Buffer = evPre.mp3Buffer

\* C13: a textual message that is not valid JSON leaves the message list, the
\* status, the flags, the metrics and the fragment buffer as they were,
\* schedules no playback timer and leaves the socket open.
UnparsableTextIsDropped ==
    ev = "unparsable" =>
        /\ messages = evPre.messages
        /\ botStatus = evPre.botStatus
        /\ isRecording = evPre.isRecording
        /\ isProcessing = evPre.isProcessing
        /\ isBotSpeaking = evPre.isBotSpeaking
        /\ latency = evPre.latency
        /\ mp3Buffer = evPre.mp3Buffer
        /\ timers = evPre.timers
        /\ wsState = "open"

UnparsableDroppedMidReply ==
    /\ ev = "unparsable"
    /\ evPre.messages # <<>>
    /\ evPre.timers > 0
    /\ evPre.mp3Buffer # <<>>
    /\ wsState = "open"

\* C14: a release that finds fewer than MinPlayable buffered bytes hands
\* nothing to playback, leaves the status and isBotSpeaking as they were, and
\* empties the buffer.
SmallReleaseIsDiscarded ==
    (ev = "timer" /\ TotalLength(evPre.mp3Buffer) < MinPlayable) =>
        /\ evPre.handedOff = <<>>
        /\ decoding + playing = evPre.inFlight
        /\ botStatus = evPre.botStatus
        /\ isBotSpeaking = evPre.isBotSpeaking
        /\ mp3Buffer = <<>>

FortyBytesDiscarded ==
    /\ ev = "timer"
    /\ TotalLength(evPre.mp3Buffer) = 40
    /\ evPre.botStatus # "speaking"
    /\ botStatus = evPre.botStatus
    /\ mp3Buffer = <<>>

\* C15: a release of at least MinPlayable bytes hands to playback exactly the
\* payloads, marker stripped, of the fragments that arrived since the previous
\* release, in arrival order, and leaves the buffer empty.
ReleaseHandsOffArrivedFragments ==
    (ev = "timer" /\ TotalLength(evPre.arrived) >= MinPlayable) =>
        /\ evPre.handedOff = Flatten(evPre.arrived)
        /\ Len(evPre.handedOff) = TotalLength(evPre.arrived)
        /\ mp3Buffer = <<>>

TwoFragmentsHandedOffInOrder ==
    /\ ev = "timer"
    /\ evPre.arrived = <<Fill(60, 8), Fill(40, 7)>>
    /\ evPre.handedOff = Fill(60, 8) \o Fill(40, 7)
    /\ mp3Buffer = <<>>

\* the messages of the list that announce audio
Replies == { i \in 1..Len(messages) : messages[i].has_audio }

\* the session has seen exactly one bot reply
OneReply == Cardinality(Replies) = 1

\* its control message
TheReply == messages[CHOOSE i \in Replies : TRUE]

ConnectedOrFailedLeavesConnecting ==
    /\ wsState = "open" => botStatus # "connecting"
    /\ ev = "initFailed" => botStatus = "ready"

\* C18: handing a buffer to playback opens one playback; its start notifies
\* nothing (status and isBotSpeaking as before, the playback still open);
\* its end or its decode failure closes exactly that one playback and is the
\* step that writes ready.
PlaybackNotifiesOnceAtEnd ==
    /\ (ev = "timer" /\ evPre.handedOff # <<>>) =>
          decoding + playing = evPre.inFlight + 1
    /\ ev = "decoded" =>
          /\ decoding + playing = evPre.inFlight
          /\ botStatus = evPre.botStatus
          /\ isBotSpeaking = evPre.isBotSpeaking
    /\ ev \in {"onended", "decodeError"} =>
          /\ decoding + playing = evPre.inFlight - 1
          /\ botStatus = "ready"
          /\ ~isBotSpeaking
    /\ decoding >= 0 /\ playing >= 0

PlaybackEndedAfterSpeaking ==
    /\ ev = "onended"
    /\ evPre.inFlight = 1 /\ decoding + playing = 0
    /\ evPre.botStatus = "speaking" /\ evPre.isBotSpeaking
    /\ botStatus = "ready"

\* C19: when every started playback ends or fails to decode, a status of
\* speaking is always followed by a status of ready or done.
SpeakingEventuallyOver ==
    (botStatus = "speaking") ~> (botStatus \in {"ready", "done"})

SpeakingEndedByOnended ==
    /\ ev = "onended"
    /\ evPre.botStatus = "speaking"
    /\ botStatus = "ready"
    /\ isProcessing = FALSE

\* the value of field f in the most recent message that carried it
LastCarried(f) ==
    LET carried == { i \in 1..Len(messages) : messages[i][f] # Undefined }
    IN  IF carried = {} THEN Undefined
        ELSE messages[CHOOSE i \in carried : \A j \in carried : j <= i][f]

\* C20: each latency metric is the value of the most recent message that
\* carried its field.
LatencyIsLastCarried ==
    /\ latency.tts_latency_ms = LastCarried("tts_latency_ms")
    /\ latency.asr_latency_ms = LastCarried("asr_latency_ms")

\* C21: the message list changes only when a parsed control message is
\* handled, and then by appending exactly that message at the end; a message
\* of any kind but result leaves the status as it was.
MessagesAppendOnly ==
    [][messages' # messages =>
          /\ ev' = "text"
          /\ messages' = Append(messages, evPre'.msg)
          /\ evPre'.msg.type # "result" => botStatus' = botStatus]_vars

SecondMessageAppended ==
    /\ ev = "text"
    /\ evPre.messages = <<Msg("response", TRUE, 250, Undefined)>>
    /\ messages = <<Msg("response", TRUE, 250, Undefined), Msg("question", FALSE, 0, Undefined)>>
    /\ botStatus = evPre.botStatus

\* C22: once the component has unmounted its socket is neither connecting
\* nor open, and a socket is created only when the component holds none.
SocketDestroyedOnUnmount ==
    /\ [](~mounted => wsState \notin {"connecting", "open"})
    /\ [][(wsState' = "connecting" /\ wsState # "connecting") => wsState = "none"]_vars

\* C23: the capture buffer is emptied when a recording starts, grows only by
\* one captured block at a time, and a stop that ends a recording leaves it
\* with zero bytes and sends, if anything, exactly the blocks buffered since
\* that recording started; a stop that ends no recording touches neither.
CaptureBufferBelongsToRecording ==
    [][/\ ev' = "micGranted" => audioChunks' = <<>>
       /\ (ev' = "stop" /\ isRecording) =>
             /\ TotalLength(audioChunks') = 0
             /\ sent' # sent => sent' = sent \o <<Flatten(audioChunks), EndAudio>>
       /\ (ev' = "stop" /\ ~isRecording) =>
             audioChunks' = audioChunks /\ sent' = sent
       /\ (ev' \notin {"micGranted", "stop"} /\ audioChunks' # audioChunks) =>
             /\ ev' = "onaudioprocess"
             /\ Len(audioChunks') = Len(audioChunks) + 1
             /\ SubSeq(audioChunks', 1, Len(audioChunks)) = audioChunks]_vars

DroppedUtteranceLeavesBufferEmpty ==
    /\ ev = "stop" /\ evPre.isRecording
    /\ evPre.audioChunks # <<>>
    /\ wsState # "open"
    /\ sent = evPre.sent
    /\ audioChunks = <<>>

\* C24: there is no playback context until a permitted start or a buffer
\* handed to playback needs one; a context is created only when none is held
\* or the one held is closed, otherwise the one held is kept; and when a
\* source is started the context is that same one, in the running state.
PlaybackContextLazyReusedResumed ==
    /\ playbackCtx = NoContext
    /\ [][/\ playbackCtx'.id # playbackCtx.id =>
                /\ playbackCtx.id = 0 \/ playbackCtx.state = "closed"
                /\ playbackCtx'.id = playbackCtx.id + 1
                /\ \/ ev' = "start" /\ micPending' = micPending + 1
                   \/ ev' = "timer" /\ evPre'.handedOff # <<>>
          /\ ev' = "decoded" =>
                /\ playbackCtx.id > 0
                /\ playbackCtx'.id = playbackCtx.id
                /\ playbackCtx'.state = "running"]_vars

SuspendedContextResumedInLaterTurn ==
    /\ ev = "decoded"
    /\ Len(sent) = 2
    /\ evPre.ctx = [id |-> 1, state |-> "suspended"]
    /\ playbackCtx = [id |-> 1, state |-> "running"]

\* C25, in the case of a session without a socket (the claim's stop while the
\* socket is not open): when timers fire and playbacks end or fail,
\* isProcessing being true is always followed by isProcessing being false or
\* the status being done, unless the component unmounts first.
ProcessingEventuallyOver ==
    (isProcessing /\ wsState = "none") ~> (~isProcessing \/ botStatus = "done" \/ ~mounted)

\* C26: on the mounted component at most one playback is in progress
\* (decoding or sounding), and the status is not ready while one is.
AtMostOnePlayback ==
    mounted =>
        /\ decoding + playing <= 1
        /\ botStatus = "ready" => decoding + playing = 0

\* C27: on the mounted component isRecording holds exactly when the status is
\* listening, isBotSpeaking exactly when it is speaking, and the status is
\* ready only when the three flags are false.
FlagsAgreeWithStatus ==
    mounted =>
        /\ isRecording <=> botStatus = "listening"
        /\ isBotSpeaking <=> botStatus = "speaking"
        /\ botStatus = "ready" => (~isRecording /\ ~isProcessing /\ ~isBotSpeaking)

\* C28: the releases pending and the playbacks in progress never outnumber
\* the has_audio messages received; a control message schedules one release
\* if it has has_audio and none otherwise, and starts no playback; a binary
\* message changes neither the status, the flags, the pending releases nor the
\* playbacks; without a has_audio message nothing is played.
ReleaseOnlyByHasAudio ==
    /\ timers + decoding + playing <= Cardinality(Replies)
    /\ Replies = {} => (decoding + playing = 0 /\ ~isBotSpeaking /\ botStatus # "speaking")
    /\ ev = "text" =>
          /\ timers = evPre.timers + (IF evPre.msg.has_audio THEN 1 ELSE 0)
          /\ decoding + playing = evPre.inFlight
    /\ ev = "binary" =>
          /\ botStatus = evPre.botStatus
          /\ isRecording = evPre.isRecording
          /\ isProcessing = evPre.isProcessing
          /\ isBotSpeaking = evPre.isBotSpeaking
          /\ timers = evPre.timers
          /\ decoding + playing = evPre.inFlight

PlayableFragmentsWaitForHasAudio ==
    /\ ev = "binary" /\ IsFragment(evPre.input)
    /\ Replies = {}
    /\ TotalLength(mp3Buffer) >= MinPlayable
    /\ botStatus = evPre.botStatus
    /\ decoding + playing = 0

\* C29: a start request changes, up to its wait for the microphone, neither
\* the status, the three flags, the capture buffer nor the messages sent, and
\* the failure of the microphone request changes none of them either.
MicFailureAbsorbed ==
    ev \in {"start", "micError"} =>
        /\ botStatus = evPre.botStatus
        /\ isRecording = evPre.isRecording
        /\ isProcessing = evPre.isProcessing
        /\ isBotSpeaking = evPre.isBotSpeaking
        /\ audioChunks = evPre.audioChunks
        /\ sent = evPre.sent

MicRefusedOnReadySession ==
    /\ ev = "micError"
    /\ evPre.botStatus = "ready" /\ botStatus = "ready"
    /\ wsState = "open"
    /\ ~isRecording /\ ~isProcessing /\ ~isBotSpeaking
    /\ micPending = 0 /\ openCaptures = 0
    /\ sent = <<>>

====
